---- MODULE Spec2Model ----
(***************************************************************************)
(* Teacher-availability matching and session lifecycle of clasify-connect. *)
(*                                                                         *)
(* The datastore (tables, constraints, row-level-security policies and     *)
(* triggers of the migration) is shared state; every browser client is a   *)
(* process whose React state is local.  Each awaited datastore round trip   *)
(* is one atomic step of the datastore; what a handler does after an await  *)
(* that another client can observe is a separate step.                     *)
(***************************************************************************)
EXTENDS Integers, Sequences, FiniteSets, TLC

VARIABLES
    teacher_availability,  \* table: set of advertisement rows
    adCount,               \* number of advertisement ids generated so far
    sessions,              \* table: sequence of session rows, index = id
    ratings,               \* table: set of rating rows
    app_stats,             \* table: the single statistics row
    profiles,              \* table: per user, the profile row
    now,                   \* wall clock, in seconds
    loc,                   \* per client: the page it shows
    view,                  \* per client: React state of the Session page
    availableTeachers,     \* per student: StudentDashboard state
    availEvents,           \* per student: an availability event is undelivered
    availReplies,          \* per student: answers of fetchAvailableTeachers
                           \* queries that have read the table, not yet applied
    connecting,            \* per student: handleConnectToTeacher past its insert
    filters,               \* per student: selectedSubject, selectedTopic and
                           \* searchQuery of the StudentDashboard
    isAvailable,           \* per teacher: TeacherDashboard state
    selected,              \* per teacher: selectedSubject / selectedTopic
    availFetch,            \* per teacher: fetchAvailability not yet answered
    sessEvents,            \* per teacher: undelivered session INSERT events
    pendingSession,        \* per teacher: the session of the 'Sesión activa'
                           \* alert (NoSession: no alert)
    claimedAd,             \* history: per session, the advertisement it claimed
    endedBy,               \* history: per session, <<first, latest>> caller of
                           \* the completion write (<<>>: never written)
    lastCall               \* history: the latest rating insert or statement
                           \* sent to the datastore API, its caller, the score
                           \* of a rating (arg), and whether it changed a row

dbVars == <<teacher_availability, adCount, sessions, ratings, app_stats>>
studentVars == <<availableTeachers, availEvents, availReplies, connecting,
                 filters>>
teacherVars == <<isAvailable, selected, availFetch, sessEvents,
                 pendingSession>>
histVars == <<claimedAd, endedBy, lastCall>>
vars == <<dbVars, profiles, now, loc, view, studentVars, teacherVars, histVars>>

(***************************************************************************)
(* Bounds of the model.                                                    *)
(***************************************************************************)
MaxSessions == 2
MaxAds == 2
MaxRatedSessions == 3

(***************************************************************************)
(* Profiles, catalog and clock.                                            *)
(***************************************************************************)
Students == {"s1", "s2"}
Teachers == {"t1", "t2"}
Profiles == Students \cup Teachers

\* Users who sign up later.
NewUsers == {"u1", "u2"}
Users == Profiles \cup NewUsers
NoProfile == [role |-> "none", avatar_url |-> "null"]
\* profiles.role of the profile of p.
role(p) == profiles[p].role

NoTopic == "null"
\* What a teacher can pick in the two selects: a subject and, optionally
\* ('' is "Cualquier tema"), one of its topics.
Offers == {[subject_id |-> "math", topic_id |-> ""],
           [subject_id |-> "physics", topic_id |-> ""],
           [subject_id |-> "physics", topic_id |-> "optics"]}
NoOffer == [subject_id |-> "", topic_id |-> ""]

\* The instants at which the clock is observed.
TimePoints == {0, 125, 3600, 3725}
NoTime == 0 - 1

CapSeconds == 3600
SecondsPerMinute == 60
\* useState(0): elapsedTime before the first tick.
InitialElapsedTime == 0
\* The stars of the rating prompt a student picks among.
Scores == {3, 5}
\* useState(0): no star selected.
NoStar == 0
\* The scores a statement sent to the datastore may carry.
ApiScores == {0, 3, 5, 6}

SessionStatus == {"pending", "active", "completed", "cancelled"}

(***************************************************************************)
(* Datastore: row-level-security policies.                                 *)
(***************************************************************************)
\* Variant of the policy that checks the caller's role only.
AnyTeacherManagesAvailability(caller, row) == role(caller) = "teacher"

\* EXISTS (SELECT 1 FROM profiles WHERE id = teacher_id AND user_id =
\* auth.uid() AND role = 'teacher'): INSERT, UPDATE and DELETE policies of
\* teacher_availability.
TeacherManagesAvailability(caller, row) ==
    row.teacher_id = caller /\ role(caller) = "teacher"

\* "Students can create sessions for themselves only".
SessionInsertCheck(caller, row) == row.student_id = caller

\* Variant of the policies that admits every authenticated caller.
SessionAnyCaller(caller, row) == caller \in Profiles

\* "Users can view their own sessions" / "Participants can update sessions".
SessionParticipant(caller, row) ==
    caller = row.student_id \/ caller = row.teacher_id

\* "Students can rate their sessions".
RatingInsertCheck(caller, row) == row.student_id = caller

(***************************************************************************)
(* Datastore: statements.  Each returns the table after the statement; a   *)
(* statement that a policy or constraint rejects leaves the table as it is.*)
(***************************************************************************)
\* The row toggleAvailability writes: topic_id: selectedTopic || null.
AvailabilityRow(id, teacher, offer) ==
    [id |-> id, teacher_id |-> teacher, subject_id |-> offer.subject_id,
     topic_id |-> IF offer.topic_id = "" THEN NoTopic ELSE offer.topic_id,
     is_available |-> TRUE]

\* Variant of the upsert on a table without the UNIQUE constraint on
\* teacher_id.
AvailabilityUpsertNoUnique(caller, row, table) ==
    IF ~(row.teacher_id = caller /\ role(caller) = "teacher") THEN table
    ELSE table \cup {row}

\* Variant of the upsert that replaces every row of the table.
AvailabilityUpsertReplacesAll(caller, row, table) ==
    IF ~(row.teacher_id = caller /\ role(caller) = "teacher") THEN table
    ELSE {row}

\* .from('teacher_availability').upsert({teacher_id, subject_id, topic_id,
\* is_available}): no onConflict is given, so the conflict target is the
\* primary key id, which the row does not carry and the table default
\* generates afresh.  A row of the same teacher therefore violates the
\* UNIQUE constraint on teacher_id and the statement is rejected.
AvailabilityUpsert(caller, row, table) ==
    IF ~TeacherManagesAvailability(caller, row) THEN table
    ELSE IF \E r \in table : r.teacher_id = row.teacher_id THEN table
    ELSE table \cup {row}

\* Variant of the delete without the .eq('teacher_id', ...) filter on a table
\* whose DELETE policy admits every teacher.
AvailabilityDeleteUnfiltered(caller, teacher, table) ==
    IF role(caller) = "teacher" THEN {} ELSE table

\* .from('teacher_availability').delete().eq('teacher_id', teacher): the
\* DELETE policy filters the rows the caller may delete.
AvailabilityDelete(caller, teacher, table) ==
    {r \in table : ~(r.teacher_id = teacher
                     /\ TeacherManagesAvailability(caller, r))}

\* .from('teacher_availability').select(...).eq('is_available', true)
AvailabilitySelectOpen(table) == {r \in table : r.is_available}

SessionRow(student, teacher, subject, topic, t) ==
    [student_id |-> student, teacher_id |-> teacher, subject_id |-> subject,
     topic_id |-> topic, status |-> "active", started_at |-> t,
     ended_at |-> NoTime, duration_minutes |-> NoTime]

\* .from('sessions').insert(row)
SessionInsert(caller, row, table) ==
    IF SessionInsertCheck(caller, row) THEN Append(table, row) ELSE table

\* Variant of the update that records a session of zero minutes as cancelled.
SessionCompleteOrCancel(caller, id, t, duration, table) ==
    [i \in DOMAIN table |->
        IF i = id /\ (caller = table[i].student_id
                      \/ caller = table[i].teacher_id)
        THEN [table[i] EXCEPT
                !.status = IF duration = 0 THEN "cancelled" ELSE "completed",
                !.ended_at = t, !.duration_minutes = duration]
        ELSE table[i]]

\* Variant of the update that does not store the duration.
SessionCompleteNoDuration(caller, id, t, duration, table) ==
    [i \in DOMAIN table |->
        IF i = id /\ (caller = table[i].student_id
                      \/ caller = table[i].teacher_id)
        THEN [table[i] EXCEPT !.status = "completed", !.ended_at = t]
        ELSE table[i]]

\* Variant of the update without the .eq('id', id) filter: every session the
\* caller takes part in is written.
SessionCompleteAllOfCaller(caller, id, t, duration, table) ==
    [i \in DOMAIN table |->
        IF caller = table[i].student_id \/ caller = table[i].teacher_id
        THEN [table[i] EXCEPT !.status = "completed", !.ended_at = t,
                              !.duration_minutes = duration]
        ELSE table[i]]

\* .from('sessions').update({status: 'completed', ended_at, duration_minutes})
\*   .eq('id', id)
SessionComplete(caller, id, t, duration, table) ==
    [i \in DOMAIN table |->
        IF i = id /\ SessionParticipant(caller, table[i])
        THEN [table[i] EXCEPT !.status = "completed", !.ended_at = t,
                              !.duration_minutes = duration]
        ELSE table[i]]

\* .from('sessions').select(...).eq('id', id): the rows the SELECT policy
\* lets the caller see.
SessionSelect(caller, id, table) ==
    {i \in DOMAIN table : i = id /\ SessionParticipant(caller, table[i])}

\* handle_new_user, the trigger on auth.users, as last replaced: the profile
\* is created with role 'teacher' when the signup metadata asks for it and
\* with role 'student' for any other value.
HandleNewUser(user, requested, table) ==
    LET valid_role == IF requested = "teacher" THEN "teacher" ELSE "student"
    IN [table EXCEPT ![user] = [role |-> valid_role, avatar_url |-> "null"]]

\* Variant of the update under a policy without its WITH CHECK.
ProfileUpdateUnchecked(caller, user, row, table, enforced) ==
    IF caller = user /\ table[user] # NoProfile
    THEN [table EXCEPT ![user] = row]
    ELSE table

\* update profiles set ... where user_id = user, under "Users can update
\* their own profile info but not role": USING (auth.uid() = user_id) WITH
\* CHECK (role = OLD.role).  A policy expression cannot refer to OLD: the
\* statement that creates the policy either takes effect as written
\* (enforced) or does not, and then no UPDATE policy admits any row.
ProfileUpdate(caller, user, row, table, enforced) ==
    IF /\ enforced
       /\ caller = user /\ table[user] # NoProfile
       /\ row.role = table[user].role
    THEN [table EXCEPT ![user] = row]
    ELSE table

\* insert into profiles, under "Users can insert their own profile" and
\* UNIQUE (user_id).
ProfileInsert(caller, user, row, table) ==
    IF caller = user /\ table[user] = NoProfile
    THEN [table EXCEPT ![user] = row]
    ELSE table

RECURSIVE SumRatings(_)
SumRatings(rs) ==
    IF rs = {} THEN 0
    ELSE LET r == CHOOSE x \in rs : TRUE
         IN r.rating + SumRatings(rs \ {r})

\* AVG(rating)::DECIMAL(3,2), in hundredths, rounded half up; 0 without rows.
AverageRating(rs) ==
    IF rs = {} THEN 0
    ELSE (200 * SumRatings(rs) + Cardinality(rs)) \div (2 * Cardinality(rs))

\* Variant of update_app_stats() that counts the sessions of every status.
UpdateAppStatsAnyStatus(sess, rs) ==
    [total_sessions |-> Len(sess), average_rating |-> AverageRating(rs)]

\* update_app_stats(): a full recomputation from the two tables.
UpdateAppStats(sess, rs) ==
    [total_sessions |->
        Cardinality({i \in DOMAIN sess : sess[i].status = "completed"}),
     average_rating |-> AverageRating(rs)]

\* Trigger on_session_complete: AFTER INSERT OR UPDATE ON sessions, for each
\* row WHEN NEW.status = 'completed' AND (INSERT OR OLD.status IS DISTINCT
\* FROM NEW.status).
StatsAfterSessionWrite(old, new, rs, stats) ==
    IF \E i \in DOMAIN new :
          /\ new[i].status = "completed"
          /\ (i \notin DOMAIN old \/ old[i].status # "completed")
    THEN UpdateAppStats(new, rs)
    ELSE stats

\* Variant of the insert on a table without the UNIQUE constraint on
\* session_id.
RatingInsertNoUnique(caller, row, table, sess) ==
    IF /\ row.student_id = caller
       /\ row.session_id \in DOMAIN sess
       /\ row.rating >= 1 /\ row.rating <= 5
    THEN table \cup {row}
    ELSE table

\* Variant of the insert as an upsert on session_id: the rating of a session
\* is replaced.
RatingInsertReplaces(caller, row, table, sess) ==
    IF /\ row.student_id = caller
       /\ row.session_id \in DOMAIN sess
       /\ row.rating >= 1 /\ row.rating <= 5
    THEN {r \in table : r.session_id # row.session_id} \cup {row}
    ELSE table

\* Variant of the insert on a table without the CHECK on rating.
RatingInsertNoRange(caller, row, table, sess) ==
    IF /\ row.student_id = caller
       /\ row.session_id \in DOMAIN sess
       /\ ~\E r \in table : r.session_id = row.session_id
    THEN table \cup {row}
    ELSE table

\* .from('ratings').insert(row): policy, UNIQUE (session_id), the foreign key
\* to sessions and CHECK (rating >= 1 AND rating <= 5).
RatingInsert(caller, row, table, sess) ==
    IF /\ RatingInsertCheck(caller, row)
       /\ row.session_id \in DOMAIN sess
       /\ row.rating >= 1 /\ row.rating <= 5
       /\ ~\E r \in table : r.session_id = row.session_id
    THEN table \cup {row}
    ELSE table

(***************************************************************************)
(* Client state.                                                           *)
(***************************************************************************)
\* React state of the Session page: the id route parameter, whether
\* fetchSession is outstanding, session and profile being non-null, the
\* interval of the timer effect and the profile its callback closed over,
\* elapsedTime and showRating.
NoView == [sid |-> 0, fetching |-> FALSE, session |-> FALSE,
           profile |-> FALSE, timerOn |-> FALSE, timerProfile |-> FALSE,
           elapsedTime |-> InitialElapsedTime, showRating |-> FALSE]

\* useState<Session | null>(null): no session in the alert.
NoSession == 0
NoCall == [op |-> "none", by |-> "nobody", arg |-> 0, ok |-> FALSE]

\* useState(null), useState(null), useState(''): no filter is set.
NoFilters == [selectedSubject |-> "null", selectedTopic |-> "null",
              searchQuery |-> <<>>]

\* The Session page right after it mounts: useState initial values, and
\* fetchSession issued by the first effect.
MountedView(sid, profileLoaded) ==
    [NoView EXCEPT !.sid = sid, !.fetching = TRUE, !.profile = profileLoaded]

OnDashboard(p) == loc[p] = "dashboard"
InSession(p) == loc[p] = "session"

\* The interval of the timer effect is set.
TimerRunning(p) == InSession(p) /\ view[p].timerOn

Elapsed(sid, t) == t - sessions[sid].started_at

Init ==
    /\ teacher_availability = {}
    /\ adCount = 0
    /\ sessions = <<>>
    /\ ratings = {}
    /\ app_stats = [total_sessions |-> 0, average_rating |-> 0]
    /\ profiles = [u \in Users |->
          IF u \in Teachers THEN [role |-> "teacher", avatar_url |-> "null"]
          ELSE IF u \in Students
               THEN [role |-> "student", avatar_url |-> "null"]
               ELSE NoProfile]
    /\ now = 0
    /\ loc = [p \in Profiles |-> "dashboard"]
    /\ view = [p \in Profiles |-> NoView]
    /\ availableTeachers = [p \in Students |-> {}]
    /\ availEvents = [p \in Students |-> FALSE]
    /\ availReplies = [p \in Students |-> {}]
    /\ connecting = [p \in Students |-> {}]
    /\ filters = [p \in Students |-> NoFilters]
    /\ isAvailable = [t \in Teachers |-> FALSE]
    /\ selected = [t \in Teachers |-> NoOffer]
    /\ availFetch = [t \in Teachers |-> FALSE]
    /\ sessEvents = [t \in Teachers |-> {}]
    /\ pendingSession = [t \in Teachers |-> NoSession]
    /\ claimedAd = <<>>
    /\ lastCall = NoCall
    /\ endedBy = <<>>

(***************************************************************************)
(* Realtime: a change of teacher_availability is pushed to every           *)
(* subscribed StudentDashboard (channel 'teacher-availability-changes').   *)
(***************************************************************************)
\* The callback is the same refetch for every event, so the events a client
\* has not yet received are kept as one flag: they are delivered together.
Notified(changed, events) ==
    [p \in Students |-> events[p] \/ (changed /\ OnDashboard(p))]

\* An INSERT on sessions is pushed, with the inserted row as payload, to
\* every subscribed TeacherDashboard whose filter teacher_id=eq.<profile.id>
\* it matches (channel 'session-requests').
SessionInserted(sid, row, events) ==
    [t \in Teachers |->
        IF t = row.teacher_id /\ OnDashboard(t)
        THEN events[t] \cup {[id |-> sid, status |-> row.status]}
        ELSE events[t]]

(***************************************************************************)
(* Mounting and unmounting the dashboards.                                 *)
(***************************************************************************)
\* StudentDashboard mounts: empty list, fetchAvailableTeachers issued (its
\* query reads table), channel subscribed.  p = nobody: no student mounts.
StudentMounts(p, table, events) ==
    /\ availableTeachers' = [q \in Students |->
          IF q = p THEN AvailabilitySelectOpen(table)
          ELSE availableTeachers[q]]
    /\ availEvents' = [q \in Students |-> q # p /\ events[q]]
    /\ availReplies' = [q \in Students |->
          IF q = p THEN {} ELSE availReplies[q]]
    /\ connecting' = [q \in Students |-> IF q = p THEN {} ELSE connecting[q]]
    /\ filters' = [q \in Students |-> IF q = p THEN NoFilters ELSE filters[q]]

\* StudentDashboard unmounts: its state is gone, the channel is removed.
StudentUnmounts(p, events) ==
    /\ availableTeachers' = [q \in Students |->
          IF q = p THEN {} ELSE availableTeachers[q]]
    /\ availEvents' = [q \in Students |-> q # p /\ events[q]]
    /\ availReplies' = [q \in Students |->
          IF q = p THEN {} ELSE availReplies[q]]
    /\ connecting' = [q \in Students |-> IF q = p THEN {} ELSE connecting[q]]
    /\ filters' = [q \in Students |-> IF q = p THEN NoFilters ELSE filters[q]]

\* checkPendingSession: .eq('teacher_id', profile.id).eq('status', 'active')
\* .maybeSingle() gives the row if exactly one matches and no data (an error
\* the function does not read) if none or several do; if (data)
\* setPendingSession(data).
CheckPendingSession(t, table) ==
    LET rows == {i \in DOMAIN table : table[i].teacher_id = t
                                      /\ table[i].status = "active"}
    IN IF Cardinality(rows) = 1 THEN CHOOSE i \in rows : TRUE ELSE NoSession

\* TeacherDashboard mounts (mounted = TRUE: fetchAvailability issued,
\* channel 'session-requests' subscribed) or unmounts.
TeacherResets(t, mounted, table) ==
    /\ pendingSession' = [u \in Teachers |->
          IF u # t THEN pendingSession[u]
          ELSE IF mounted THEN CheckPendingSession(t, table) ELSE NoSession]
    /\ isAvailable' = [u \in Teachers |->
          IF u = t THEN FALSE ELSE isAvailable[u]]
    /\ selected' = [u \in Teachers |-> IF u = t THEN NoOffer ELSE selected[u]]
    /\ availFetch' = [u \in Teachers |->
          IF u = t THEN mounted ELSE availFetch[u]]
    /\ sessEvents' = [u \in Teachers |-> IF u = t THEN {} ELSE sessEvents[u]]

\* navigate('/dashboard') from the Session page.
GoesToDashboard(p, table) ==
    /\ loc' = [loc EXCEPT ![p] = "dashboard"]
    /\ IF p \in Students
       THEN /\ StudentMounts(p, teacher_availability, availEvents)
            /\ UNCHANGED teacherVars
       ELSE /\ TeacherResets(p, TRUE, table)
            /\ UNCHANGED studentVars

(***************************************************************************)
(* TeacherDashboard.                                                       *)
(***************************************************************************)
\* fetchAvailability: the answer to .eq('teacher_id', profile.id).maybeSingle()
FetchAvailabilityDone(t) ==
    /\ OnDashboard(t)
    /\ availFetch[t]
    /\ availFetch' = [availFetch EXCEPT ![t] = FALSE]
    /\ LET rows == {r \in teacher_availability : r.teacher_id = t}
       IN IF rows = {}
          THEN UNCHANGED <<isAvailable, selected>>
          ELSE LET data == CHOOSE r \in rows : TRUE
               IN /\ isAvailable' = [isAvailable EXCEPT ![t] = data.is_available]
                  /\ selected' = [selected EXCEPT ![t] =
                        [subject_id |-> data.subject_id,
                         topic_id |-> IF data.topic_id # NoTopic
                                      THEN data.topic_id
                                      ELSE selected[t].topic_id]]
    /\ UNCHANGED <<dbVars, now, profiles, loc, view, studentVars, sessEvents,
                   pendingSession, histVars>>

\* What the selects hold when the button is pressed: the teacher may first
\* pick a subject (which clears the topic) and a topic of it, unless the
\* selects are disabled (isAvailable), or leave them as they are.
Selectable(t) ==
    IF isAvailable[t] THEN {selected[t]} ELSE Offers \cup {selected[t]}

\* toggleAvailability, with o in the selects: withdraw when the local flag
\* says available, publish otherwise.  The result of the awaited statement
\* is not inspected: the flag is flipped either way.
ToggleAvailability(t, o) ==
    /\ OnDashboard(t)
    /\ o \in Selectable(t)
    /\ o.subject_id # ""
    /\ selected' = [selected EXCEPT ![t] = o]
    /\ LET table == IF isAvailable[t]
                    THEN AvailabilityDelete(t, t, teacher_availability)
                    ELSE AvailabilityUpsert(t,
                            AvailabilityRow(adCount + 1, t, o),
                            teacher_availability)
           changed == table # teacher_availability
           inserted == changed /\ ~isAvailable[t]
       IN /\ inserted => adCount < MaxAds
          /\ teacher_availability' = table
          /\ adCount' = IF inserted THEN adCount + 1 ELSE adCount
          /\ availEvents' = Notified(changed, availEvents)
    /\ isAvailable' = [isAvailable EXCEPT ![t] = ~isAvailable[t]]
    /\ UNCHANGED <<sessions, ratings, app_stats, now, profiles, loc, view,
                   availableTeachers, availReplies, connecting, filters,
                   availFetch,
                   sessEvents, pendingSession,
                   histVars>>

\* The 'session-requests' channel delivers an INSERT on sessions with
\* teacher_id = profile.id: navigate to the session if payload.new.status is
\* 'active'.
SessionEventDelivered(t, ev) ==
    /\ OnDashboard(t)
    /\ ev \in sessEvents[t]
    /\ IF ev.status = "active"
       THEN /\ loc' = [loc EXCEPT ![t] = "session"]
            /\ view' = [view EXCEPT ![t] = MountedView(ev.id, TRUE)]
            /\ TeacherResets(t, FALSE, sessions)
       ELSE /\ sessEvents' = [sessEvents EXCEPT ![t] = @ \ {ev}]
            /\ UNCHANGED <<loc, view, isAvailable, selected, availFetch,
                           pendingSession>>
    /\ UNCHANGED <<dbVars, now, profiles, studentVars, histVars>>

\* The button 'Ir a la sesión' of the alert: navigate to the pending session.
OpenPendingSession(t) ==
    /\ OnDashboard(t)
    /\ pendingSession[t] # NoSession
    /\ loc' = [loc EXCEPT ![t] = "session"]
    /\ view' = [view EXCEPT ![t] = MountedView(pendingSession[t], TRUE)]
    /\ TeacherResets(t, FALSE, sessions)
    /\ UNCHANGED <<dbVars, now, profiles, studentVars, histVars>>

(***************************************************************************)
(* StudentDashboard.                                                       *)
(***************************************************************************)
\* The 'teacher-availability-changes' channel delivers an event: the
\* callback issues fetchAvailableTeachers, whose query reads the table, and
\* setAvailableTeachers(data) stores the answer.  Answers are applied in the
\* order in which their queries read the table.
AvailEventDelivered(p) ==
    /\ OnDashboard(p)
    /\ availEvents[p]
    /\ availEvents' = [availEvents EXCEPT ![p] = FALSE]
    /\ availableTeachers' = [availableTeachers EXCEPT ![p] =
          AvailabilitySelectOpen(teacher_availability)]
    /\ UNCHANGED <<dbVars, now, profiles, loc, view, availReplies, connecting,
                   filters,
                   teacherVars, histVars>>

\* The joined columns of a list entry: profiles.full_name of the teacher and
\* subjects.name of the subject, as sequences of characters.
FullName(t) == IF t = "t1" THEN <<"A", "n", "a">> ELSE <<"B", "o">>
SubjectName(subject) ==
    IF subject = "math" THEN <<"M", "a", "t">> ELSE <<"F", "i", "s">>
\* The topics of a subject (fetchTopics).
TopicsOf(subject) == IF subject = "physics" THEN {"optics"} ELSE {}
\* What a student may type into the search box.
Queries == {<<>>, <<"a", "N">>, <<"m", "A">>, <<"i">>}

\* String.prototype.toLowerCase and String.prototype.includes.
LowerChar(c) ==
    CASE c = "A" -> "a" [] c = "B" -> "b" [] c = "F" -> "f"
      [] c = "M" -> "m" [] c = "N" -> "n" [] OTHER -> c
ToLowerCase(str) == [i \in DOMAIN str |-> LowerChar(str[i])]
Includes(str, part) ==
    \E i \in 0..(Len(str) - Len(part)) :
        SubSeq(str, i + 1, i + Len(part)) = part

\* Variant of filteredTeachers that ignores the topic filter.
FilteredTeachersAnyTopic(p) ==
    {teacher \in availableTeachers[p] :
        /\ filters[p].selectedSubject \in {"null", teacher.subject_id}
        /\ \/ filters[p].searchQuery = <<>>
           \/ Includes(ToLowerCase(FullName(teacher.teacher_id)),
                       ToLowerCase(filters[p].searchQuery))
           \/ Includes(ToLowerCase(SubjectName(teacher.subject_id)),
                       ToLowerCase(filters[p].searchQuery))}

\* filteredTeachers, computed at every render: a falsy filter (null, '')
\* matches every entry.
FilteredTeachers(p) ==
    {teacher \in availableTeachers[p] :
        LET f == filters[p]
            query == ToLowerCase(f.searchQuery)
            matchesSubject == f.selectedSubject = "null"
                              \/ teacher.subject_id = f.selectedSubject
            matchesTopic == f.selectedTopic = "null"
                            \/ teacher.topic_id = f.selectedTopic
            matchesSearch ==
                \/ f.searchQuery = <<>>
                \/ Includes(ToLowerCase(FullName(teacher.teacher_id)), query)
                \/ Includes(ToLowerCase(SubjectName(teacher.subject_id)), query)
        IN matchesSubject /\ matchesTopic /\ matchesSearch}

\* A subject button (or 'Todas'): setSelectedSubject, setSelectedTopic(null).
SelectSubject(p, subject) ==
    /\ OnDashboard(p)
    /\ filters' = [filters EXCEPT ![p] =
          [@ EXCEPT !.selectedSubject = subject, !.selectedTopic = "null"]]
    /\ UNCHANGED <<dbVars, now, profiles, loc, view, availableTeachers,
                   availEvents,
                   availReplies, connecting, teacherVars, histVars>>

\* A topic button of the selected subject (or 'Todos').
SelectTopic(p, topic) ==
    /\ OnDashboard(p)
    /\ TopicsOf(filters[p].selectedSubject) # {}
    /\ topic \in TopicsOf(filters[p].selectedSubject) \cup {"null"}
    /\ filters' = [filters EXCEPT ![p] = [@ EXCEPT !.selectedTopic = topic]]
    /\ UNCHANGED <<dbVars, now, profiles, loc, view, availableTeachers,
                   availEvents,
                   availReplies, connecting, teacherVars, histVars>>

\* The search box: setSearchQuery(e.target.value).
TypeSearchQuery(p, query) ==
    /\ OnDashboard(p)
    /\ filters' = [filters EXCEPT ![p] = [@ EXCEPT !.searchQuery = query]]
    /\ UNCHANGED <<dbVars, now, profiles, loc, view, availableTeachers,
                   availEvents,
                   availReplies, connecting, teacherVars, histVars>>

\* The same callback in two steps, for answers that may overtake each other:
\* the event is delivered and the query of fetchAvailableTeachers reads the
\* table; nothing orders its answer with those of earlier calls.
RefetchIssued(p) ==
    /\ OnDashboard(p)
    /\ availEvents[p]
    /\ availEvents' = [availEvents EXCEPT ![p] = FALSE]
    /\ availReplies' = [availReplies EXCEPT ![p] =
          @ \cup {AvailabilitySelectOpen(teacher_availability)}]
    /\ UNCHANGED <<dbVars, now, profiles, loc, view, availableTeachers,
                   connecting,
                   filters,
                   teacherVars, histVars>>

\* An answer arrives: if (data) setAvailableTeachers(data).
RefetchAnswered(p, data) ==
    /\ OnDashboard(p)
    /\ data \in availReplies[p]
    /\ availReplies' = [availReplies EXCEPT ![p] = @ \ {data}]
    /\ availableTeachers' = [availableTeachers EXCEPT ![p] = data]
    /\ UNCHANGED <<dbVars, now, profiles, loc, view, availEvents, connecting,
                   filters,
                   teacherVars, histVars>>

\* handleConnectToTeacher(teacher), up to the answer of the insert: teacher
\* is an entry of the displayed list.  The session is inserted with the
\* snapshot's teacher, subject and topic; nothing is read back from
\* teacher_availability.
ConnectInsert(p, teacher) ==
    /\ OnDashboard(p)
    /\ teacher \in FilteredTeachers(p)
    /\ LET row == SessionRow(p, teacher.teacher_id, teacher.subject_id,
                             teacher.topic_id, now)
           table == SessionInsert(p, row, sessions)
           ok == Len(table) > Len(sessions)
           sid == Len(table)
       IN /\ sessions' = table
          /\ app_stats' = StatsAfterSessionWrite(sessions, table, ratings,
                                                 app_stats)
          /\ connecting' = [connecting EXCEPT ![p] =
                IF ok THEN @ \cup {sid} ELSE @]
          /\ claimedAd' = IF ok THEN Append(claimedAd, teacher.id)
                          ELSE claimedAd
          /\ endedBy' = IF ok THEN Append(endedBy, <<>>) ELSE endedBy
          /\ sessEvents' = IF ok THEN SessionInserted(sid, row, sessEvents)
                           ELSE sessEvents
    /\ UNCHANGED <<teacher_availability, adCount, ratings, now, profiles, loc,
                   view,
                   availableTeachers, availEvents, availReplies, filters,
                   isAvailable,
                   selected, availFetch, pendingSession, lastCall>>

\* handleConnectToTeacher after the insert answered with a session: delete
\* the teacher's availability (as the student), then navigate to the session.
ConnectFinish(p, sid) ==
    /\ OnDashboard(p)
    /\ sid \in connecting[p]
    /\ LET table == AvailabilityDelete(p, sessions[sid].teacher_id,
                                       teacher_availability)
           changed == table # teacher_availability
       IN /\ teacher_availability' = table
          /\ StudentUnmounts(p, Notified(changed, availEvents))
    /\ loc' = [loc EXCEPT ![p] = "session"]
    /\ view' = [view EXCEPT ![p] = MountedView(sid, TRUE)]
    /\ UNCHANGED <<adCount, sessions, ratings, app_stats, now, profiles,
                   teacherVars,
                   histVars>>

(***************************************************************************)
(* Session page.                                                           *)
(***************************************************************************)
\* fetchSession answers: .eq('id', id).single() returns the row if the
\* caller may see it.  With session.started_at set, the timer effect runs
\* and sets the interval; its callback closes over endSession of this
\* render, hence over this render's profile and elapsedTime.
FetchSessionDone(p) ==
    /\ InSession(p)
    /\ view[p].fetching
    /\ LET sid == view[p].sid
           found == SessionSelect(p, sid, sessions) # {}
           timer == found /\ sessions[sid].started_at # NoTime
       IN view' = [view EXCEPT ![p] =
             [@ EXCEPT !.fetching = FALSE, !.session = found,
                       !.timerOn = timer,
                       !.timerProfile = timer /\ view[p].profile]]
    /\ UNCHANGED <<dbVars, now, profiles, loc, studentVars, teacherVars,
                   histVars>>

\* useAuth delivers the profile after a full page load.
ProfileLoaded(p) ==
    /\ InSession(p)
    /\ ~view[p].profile
    /\ view' = [view EXCEPT ![p] = [@ EXCEPT !.profile = TRUE]]
    /\ UNCHANGED <<dbVars, now, profiles, loc, studentVars, teacherVars,
                   histVars>>

\* History of the completion writes of a session: the first caller and the
\* latest one (a second entry means a completed row was written again).
Wrote(h, by) == IF h = <<>> THEN <<by>> ELSE <<h[1], by>>

\* endSession as seen from one render: v is the page state it leaves behind
\* besides its own effect, elapsedSeen and profileSeen the elapsedTime and
\* profile of the render the function belongs to.
EndSession(p, v, elapsedSeen, profileSeen, by) ==
    IF ~(v.session /\ profileSeen)
    THEN /\ view' = [view EXCEPT ![p] = v]
         /\ UNCHANGED <<sessions, app_stats, endedBy, loc, studentVars,
                        teacherVars>>
    ELSE LET duration == elapsedSeen \div SecondsPerMinute
             table == SessionComplete(p, v.sid, now, duration, sessions)
         IN /\ sessions' = table
            /\ app_stats' = StatsAfterSessionWrite(sessions, table, ratings,
                                                   app_stats)
            /\ endedBy' = [endedBy EXCEPT ![v.sid] = Wrote(@, by)]
            /\ IF role(p) = "student"
               THEN /\ view' = [view EXCEPT ![p] =
                          [v EXCEPT !.showRating = TRUE]]
                    /\ UNCHANGED <<loc, studentVars, teacherVars>>
               ELSE /\ view' = [view EXCEPT ![p] = NoView]
                    /\ GoesToDashboard(p, table)

\* One firing of the interval callback.
TimerTick(p) ==
    /\ TimerRunning(p)
    /\ LET elapsed == Elapsed(view[p].sid, now)
           v == [view[p] EXCEPT !.elapsedTime = elapsed]
       IN IF elapsed >= CapSeconds
          THEN EndSession(p, v, InitialElapsedTime, v.timerProfile, "timer")
          ELSE /\ view' = [view EXCEPT ![p] = v]
               /\ UNCHANGED <<sessions, app_stats, endedBy, loc, studentVars,
                              teacherVars>>
    /\ UNCHANGED <<teacher_availability, adCount, ratings, now, profiles,
                   claimedAd,
                   lastCall>>

\* The hang-up button (rendered once loading is over and while the rating
\* prompt is not shown): endSession of the current render.
EndSessionClick(p) ==
    /\ InSession(p)
    /\ ~view[p].fetching
    /\ ~view[p].showRating
    /\ view[p].session /\ view[p].profile
    /\ EndSession(p, view[p], view[p].elapsedTime, view[p].profile, "click")
    /\ UNCHANGED <<teacher_availability, adCount, ratings, now, profiles,
                   claimedAd,
                   lastCall>>

\* The hang-up button when the request of the update does not reach the
\* datastore: the awaited call resolves with an error that endSession does
\* not read, and the function goes on as after a write.
EndSessionClickFailed(p) ==
    /\ InSession(p)
    /\ ~view[p].fetching
    /\ ~view[p].showRating
    /\ view[p].session /\ view[p].profile
    /\ IF role(p) = "student"
       THEN /\ view' = [view EXCEPT ![p] = [@ EXCEPT !.showRating = TRUE]]
            /\ UNCHANGED <<loc, studentVars, teacherVars>>
       ELSE /\ view' = [view EXCEPT ![p] = NoView]
            /\ GoesToDashboard(p, sessions)
    /\ UNCHANGED <<dbVars, now, profiles, histVars>>

\* submitRating with a star selected, then navigate('/dashboard').
SubmitRating(p, score) ==
    /\ InSession(p)
    /\ view[p].showRating
    /\ score # NoStar
    /\ view[p].session /\ view[p].profile
    /\ LET sid == view[p].sid
           row == [session_id |-> sid, student_id |-> p,
                   teacher_id |-> sessions[sid].teacher_id, rating |-> score]
           table == RatingInsert(p, row, ratings, sessions)
       IN /\ ratings' = table
          /\ app_stats' = IF table # ratings
                          THEN UpdateAppStats(sessions, table)
                          ELSE app_stats
          /\ lastCall' = [op |-> "rating", by |-> p, arg |-> score,
                          ok |-> table # ratings]
    /\ view' = [view EXCEPT ![p] = NoView]
    /\ GoesToDashboard(p, sessions)
    /\ UNCHANGED <<teacher_availability, adCount, sessions, now, profiles,
                   claimedAd,
                   endedBy>>

\* A participant opens /session/<sid> by its address (or reloads it): a full
\* page load, the profile is not there yet.
OpenSessionUrl(p, sid) ==
    /\ sid \in DOMAIN sessions
    /\ SessionParticipant(p, sessions[sid])
    /\ loc' = [loc EXCEPT ![p] = "session"]
    /\ view' = [view EXCEPT ![p] = MountedView(sid, FALSE)]
    /\ IF p \in Students
       THEN StudentUnmounts(p, availEvents) /\ UNCHANGED teacherVars
       ELSE TeacherResets(p, FALSE, sessions) /\ UNCHANGED studentVars
    /\ UNCHANGED <<dbVars, now, profiles, histVars>>

\* A participant leaves the Session page for the dashboard without ending.
LeaveSession(p) ==
    /\ InSession(p)
    /\ view' = [view EXCEPT ![p] = NoView]
    /\ GoesToDashboard(p, sessions)
    /\ UNCHANGED <<dbVars, now, profiles, histVars>>

(***************************************************************************)
(* The clock.  It is observed at TimePoints; the interval callbacks fire   *)
(* every second in between as well.  A step to the next time point is      *)
(* taken once every running interval has fired at the current one, and it  *)
(* carries the effect of the firings of the seconds it skips: elapsedTime  *)
(* is that of the last skipped second, and a view that is past the cap     *)
(* (the rating prompt of a student) keeps calling endSession.              *)
(***************************************************************************)
NextTime == CHOOSE t \in TimePoints :
               t > now /\ \A u \in TimePoints : u > now => t <= u

\* An awaited round trip takes less time than lies between two time points:
\* the answers to fetchSession, to the profile query of useAuth and to
\* fetchAvailability have arrived, and no handleConnectToTeacher is between
\* its insert and its navigation.  The delivery of a realtime event is not
\* bounded.
Settled ==
    /\ \A p \in Profiles : InSession(p) => ~view[p].fetching /\ view[p].profile
    /\ \A p \in Students : connecting[p] = {}
    /\ \A t \in Teachers : ~availFetch[t]

FiredNow(p) == view[p].elapsedTime = Elapsed(view[p].sid, now)

\* Variant in which the datastore itself ends a session at the cap on behalf
\* of a participant, open or not.
ExpiresPastCap(p, sid, t) ==
    /\ SessionParticipant(p, sessions[sid])
    /\ Elapsed(sid, t) >= CapSeconds

\* The interval of p calls an endSession that writes, in the skipped seconds.
FiresPastCap(p, sid, t) ==
    /\ TimerRunning(p) /\ view[p].sid = sid /\ view[p].timerProfile
    /\ Elapsed(sid, t) >= CapSeconds

AdvanceTime ==
    /\ \E t \in TimePoints : t > now
    /\ Settled
    /\ \A p \in Profiles : TimerRunning(p) => FiredNow(p)
    /\ LET last == NextTime - 1
           table == [i \in DOMAIN sessions |->
                       IF \E p \in Profiles : FiresPastCap(p, i, last)
                       THEN SessionComplete(
                               CHOOSE p \in Profiles : FiresPastCap(p, i, last),
                               i, last,
                               InitialElapsedTime \div SecondsPerMinute,
                               sessions)[i]
                       ELSE sessions[i]]
       IN /\ \A p \in Profiles : TimerRunning(p) =>
                (Elapsed(view[p].sid, now) >= CapSeconds
                 \/ Elapsed(view[p].sid, last) < CapSeconds)
          /\ now' = NextTime
          /\ view' = [p \in Profiles |->
                IF TimerRunning(p)
                THEN [view[p] EXCEPT
                        !.elapsedTime = Elapsed(view[p].sid, last)]
                ELSE view[p]]
          /\ sessions' = table
          /\ app_stats' = StatsAfterSessionWrite(sessions, table, ratings,
                                                 app_stats)
          /\ endedBy' = [i \in DOMAIN endedBy |->
                IF \E p \in Profiles : FiresPastCap(p, i, last)
                THEN Wrote(endedBy[i], "timer") ELSE endedBy[i]]
    /\ UNCHANGED <<teacher_availability, adCount, ratings, profiles, loc,
                   studentVars, teacherVars, claimedAd, lastCall>>

(***************************************************************************)
(* Specifications.                                                         *)
(*                                                                         *)
(* Spec is the matching side: the dashboards of every student and teacher, *)
(* publishing, withdrawing and claiming, at one instant of the clock; a    *)
(* client that entered a session can only come back from it.  SpecLife is  *)
(* the lifecycle side: one student and the teacher, the Session page with  *)
(* its timer, the clock and ending.  SpecRate is the rating side: one      *)
(* student who claims, ends and rates one session after the other, and the *)
(* teacher, who publishes one advertisement, at one instant of the clock.  *)
(***************************************************************************)
\* The teacher whose dashboard is followed.
MatchTeachers == {"t1"}
MatchOffers == {[subject_id |-> "math", topic_id |-> ""]}

Next ==
    \/ \E t \in MatchTeachers : FetchAvailabilityDone(t)
    \/ \E t \in MatchTeachers :
          \E o \in Selectable(t) \cap (MatchOffers \cup {selected[t]}) :
             ToggleAvailability(t, o)
    \/ \E t \in MatchTeachers : \E ev \in sessEvents[t] :
          SessionEventDelivered(t, ev)
    \/ \E p \in Students : AvailEventDelivered(p)
    \/ \E p \in Students : \E teacher \in availableTeachers[p] :
          Len(sessions) < MaxSessions /\ ConnectInsert(p, teacher)
    \/ \E p \in Students : \E sid \in connecting[p] : ConnectFinish(p, sid)
    \/ \E p \in Students \cup MatchTeachers : LeaveSession(p)
    \/ \E t \in MatchTeachers : OpenPendingSession(t)

Spec == Init /\ [][Next]_vars

LifeStudents == {"s1"}
\* SpecLife follows the first session of each of its students.
NoSessionOf(p) == \A i \in DOMAIN sessions : sessions[i].student_id # p
LifeProfiles == LifeStudents \cup MatchTeachers
LifeOffers == {[subject_id |-> "math", topic_id |-> ""]}

NextLife ==
    \/ \E t \in MatchTeachers : FetchAvailabilityDone(t)
    \/ \E t \in MatchTeachers :
          \E o \in Selectable(t) \cap (LifeOffers \cup {selected[t]}) :
             ToggleAvailability(t, o)
    \/ \E t \in MatchTeachers : \E ev \in sessEvents[t] :
          SessionEventDelivered(t, ev)
    \/ \E p \in LifeStudents : AvailEventDelivered(p)
    \/ \E p \in LifeStudents : \E teacher \in availableTeachers[p] :
          NoSessionOf(p) /\ ConnectInsert(p, teacher)
    \/ \E p \in LifeStudents : \E sid \in connecting[p] : ConnectFinish(p, sid)
    \/ \E p \in LifeProfiles : FetchSessionDone(p)
    \/ \E p \in LifeProfiles : ProfileLoaded(p)
    \/ \E p \in LifeProfiles : TimerTick(p)
    \/ \E p \in LifeProfiles : EndSessionClick(p)
    \/ \E p \in LifeProfiles, sid \in DOMAIN sessions : OpenSessionUrl(p, sid)
    \/ \E p \in LifeProfiles : LeaveSession(p)
    \/ AdvanceTime

SpecLife == Init /\ [][NextLife]_vars

\* SpecOffer is the matching side of one student and the teacher, who picks
\* among every offer of the selects.
NextOffer ==
    \/ \E t \in MatchTeachers : FetchAvailabilityDone(t)
    \/ \E t \in MatchTeachers : \E o \in Selectable(t) :
          ToggleAvailability(t, o)
    \/ \E t \in MatchTeachers : \E ev \in sessEvents[t] :
          SessionEventDelivered(t, ev)
    \/ \E p \in LifeStudents : AvailEventDelivered(p)
    \/ \E p \in LifeStudents : \E teacher \in availableTeachers[p] :
          Len(sessions) < MaxSessions /\ ConnectInsert(p, teacher)
    \/ \E p \in LifeStudents : \E sid \in connecting[p] : ConnectFinish(p, sid)
    \/ \E p \in LifeProfiles : LeaveSession(p)

SpecOffer == Init /\ [][NextOffer]_vars

\* SpecFrame is the matching side with every teacher: each teacher stays on
\* the dashboard, publishes and withdraws; one student claims and ends
\* sessions.
NextFrame ==
    \/ \E t \in Teachers :
          \E o \in Selectable(t) \cap (MatchOffers \cup {selected[t]}) :
             ToggleAvailability(t, o)
    \/ \E p \in LifeStudents : AvailEventDelivered(p)
    \/ \E p \in LifeStudents : \E teacher \in availableTeachers[p] :
          Len(sessions) < MaxSessions /\ ConnectInsert(p, teacher)
    \/ \E p \in LifeStudents : \E sid \in connecting[p] : ConnectFinish(p, sid)
    \/ \E p \in LifeStudents : FetchSessionDone(p)
    \/ \E p \in LifeStudents : EndSessionClick(p)
    \/ \E p \in LifeStudents : LeaveSession(p)

SpecFrame == Init /\ [][NextFrame]_vars

\* SpecRelay is the relay of availability changes to the students'
\* dashboards: the teacher publishes and withdraws, every student stays on
\* the dashboard, events are delivered and answers arrive eventually.
NextRelay ==
    \/ \E t \in MatchTeachers : \E o \in Selectable(t) :
          ToggleAvailability(t, o)
    \/ \E p \in Students : RefetchIssued(p)
    \/ \E p \in Students : \E data \in availReplies[p] :
          RefetchAnswered(p, data)

SpecRelay ==
    /\ Init /\ [][NextRelay]_vars
    /\ \A p \in Students : WF_vars(RefetchIssued(p))
    /\ \A p \in Students :
          WF_vars(\E data \in availReplies[p] : RefetchAnswered(p, data))

\* SpecFilter is the student's list and its filters: every teacher publishes
\* and withdraws with every offer, one student follows the list and sets the
\* subject, topic and text filters.
NextFilter ==
    \/ \E t \in Teachers : \E o \in Selectable(t) : ToggleAvailability(t, o)
    \/ \E p \in LifeStudents : AvailEventDelivered(p)
    \/ \E p \in LifeStudents, subject \in {"null", "math", "physics"} :
          SelectSubject(p, subject)
    \/ \E p \in LifeStudents, topic \in {"null", "optics"} :
          SelectTopic(p, topic)
    \/ \E p \in LifeStudents, query \in Queries : TypeSearchQuery(p, query)

SpecFilter == Init /\ [][NextFilter]_vars

NextRate ==
    \/ \E t \in MatchTeachers :
          \E o \in Selectable(t) \cap (LifeOffers \cup {selected[t]}) :
             adCount = 0 /\ ToggleAvailability(t, o)
    \/ \E p \in LifeStudents : AvailEventDelivered(p)
    \/ \E p \in LifeStudents : \E teacher \in availableTeachers[p] :
          Len(sessions) < MaxRatedSessions /\ ConnectInsert(p, teacher)
    \/ \E p \in LifeStudents : \E sid \in connecting[p] : ConnectFinish(p, sid)
    \/ \E p \in LifeStudents : FetchSessionDone(p)
    \/ \E p \in LifeStudents : ProfileLoaded(p)
    \/ \E p \in LifeStudents : EndSessionClick(p)
    \/ \E p \in LifeStudents, score \in Scores \cup {NoStar} :
          SubmitRating(p, score)
    \/ \E p \in LifeStudents, sid \in DOMAIN sessions : OpenSessionUrl(p, sid)
    \/ \E p \in LifeStudents : LeaveSession(p)

SpecRate == Init /\ [][NextRate]_vars

\* SpecRateFail is the rating side of the first session of one student, with
\* requests of the completion update that may fail.
NextRateFail ==
    \/ \E t \in MatchTeachers :
          \E o \in Selectable(t) \cap (LifeOffers \cup {selected[t]}) :
             adCount = 0 /\ ToggleAvailability(t, o)
    \/ \E p \in LifeStudents : AvailEventDelivered(p)
    \/ \E p \in LifeStudents : \E teacher \in availableTeachers[p] :
          NoSessionOf(p) /\ ConnectInsert(p, teacher)
    \/ \E p \in LifeStudents : \E sid \in connecting[p] : ConnectFinish(p, sid)
    \/ \E p \in LifeStudents : FetchSessionDone(p)
    \/ \E p \in LifeStudents : ProfileLoaded(p)
    \/ \E p \in LifeStudents : EndSessionClick(p)
    \/ \E p \in LifeStudents : EndSessionClickFailed(p)
    \/ \E p \in LifeStudents, score \in Scores \cup {NoStar} :
          SubmitRating(p, score)
    \/ \E p \in LifeStudents, sid \in DOMAIN sessions : OpenSessionUrl(p, sid)
    \/ \E p \in LifeStudents : LeaveSession(p)

SpecRateFail == Init /\ [][NextRateFail]_vars

(***************************************************************************)
(* The datastore API.  Every authenticated client holds a token with which *)
(* it can send the statements below to the datastore directly, with any    *)
(* row it likes; the policies and constraints decide.  lastCall records    *)
(* the statement and whether it changed a row.                             *)
(***************************************************************************)
\* insert (upsert) into teacher_availability by caller, for a teacher id.
ApiAvailabilityUpsert(caller, teacher, o) ==
    /\ LET table == AvailabilityUpsert(caller,
                       AvailabilityRow(adCount + 1, teacher, o),
                       teacher_availability)
           changed == table # teacher_availability
       IN /\ changed => adCount < MaxAds
          /\ teacher_availability' = table
          /\ adCount' = IF changed THEN adCount + 1 ELSE adCount
          /\ availEvents' = Notified(changed, availEvents)
          /\ lastCall' = [op |-> "publish", by |-> caller, arg |-> 0,
                          ok |-> changed]
    /\ UNCHANGED <<sessions, ratings, app_stats, now, profiles, loc, view,
                   availableTeachers, availReplies, connecting, filters,
                   teacherVars,
                   claimedAd,
                   endedBy>>

\* delete from teacher_availability where teacher_id = teacher, by caller.
ApiAvailabilityDelete(caller, teacher) ==
    /\ LET table == AvailabilityDelete(caller, teacher, teacher_availability)
           changed == table # teacher_availability
       IN /\ teacher_availability' = table
          /\ availEvents' = Notified(changed, availEvents)
          /\ lastCall' = [op |-> "withdraw", by |-> caller, arg |-> 0,
                          ok |-> changed]
    /\ UNCHANGED <<adCount, sessions, ratings, app_stats, now, profiles, loc,
                   view,
                   availableTeachers, availReplies, connecting, filters,
                   teacherVars,
                   claimedAd,
                   endedBy>>

\* insert into sessions by caller, of a row with the given participants and
\* status.
ApiSessionInsert(caller, student, teacher, status) ==
    /\ LET row == [SessionRow(student, teacher, "math", NoTopic, now)
                      EXCEPT !.status = status]
           table == SessionInsert(caller, row, sessions)
           ok == Len(table) > Len(sessions)
       IN /\ sessions' = table
          /\ app_stats' = StatsAfterSessionWrite(sessions, table, ratings,
                                                 app_stats)
          /\ claimedAd' = IF ok THEN Append(claimedAd, 0) ELSE claimedAd
          /\ endedBy' = IF ok THEN Append(endedBy, <<>>) ELSE endedBy
          /\ sessEvents' = IF ok
                           THEN SessionInserted(Len(table), row, sessEvents)
                           ELSE sessEvents
          /\ lastCall' = [op |-> "claim", by |-> caller, arg |-> 0, ok |-> ok]
    /\ UNCHANGED <<teacher_availability, adCount, ratings, now, profiles, loc,
                   view,
                   studentVars, isAvailable, selected, availFetch,
                   pendingSession>>

\* update sessions set status = 'completed', ... where id = sid, by caller.
ApiSessionUpdate(caller, sid) ==
    /\ LET table == SessionComplete(caller, sid, now, 0, sessions)
       IN /\ sessions' = table
          /\ app_stats' = StatsAfterSessionWrite(sessions, table, ratings,
                                                 app_stats)
          /\ lastCall' = [op |-> "end", by |-> caller, arg |-> 0,
                          ok |-> table # sessions]
    /\ UNCHANGED <<teacher_availability, adCount, ratings, now, profiles, loc,
                   view,
                   studentVars, teacherVars, claimedAd, endedBy>>

\* insert into ratings by caller, of a row with the given fields.
ApiRatingInsert(caller, sid, student, teacher, score) ==
    /\ LET row == [session_id |-> sid, student_id |-> student,
                   teacher_id |-> teacher, rating |-> score]
           table == RatingInsert(caller, row, ratings, sessions)
       IN /\ ratings' = table
          /\ app_stats' = IF table # ratings
                          THEN UpdateAppStats(sessions, table)
                          ELSE app_stats
          /\ lastCall' = [op |-> "rating", by |-> caller, arg |-> score,
                          ok |-> table # ratings]
    /\ UNCHANGED <<teacher_availability, adCount, sessions, now, profiles,
                   loc, view,
                   studentVars, teacherVars, claimedAd, endedBy>>

\* Auth.tsx signUp with options.data.role = requested: auth.users gets a
\* row and the trigger creates the profile.
SignUp(user, requested) ==
    /\ profiles[user] = NoProfile
    /\ profiles' = HandleNewUser(user, requested, profiles)
    /\ lastCall' = [op |-> "signup", by |-> user, arg |-> 0, ok |-> TRUE]
    /\ UNCHANGED <<dbVars, now, loc, view, studentVars, teacherVars,
                   claimedAd, endedBy>>

\* update profiles set avatar_url = avatar where user_id = user, by caller.
ApiProfileUpdateInfo(caller, user, avatar, enforced) ==
    /\ profiles[caller] # NoProfile
    /\ LET table == ProfileUpdate(caller, user,
                        [profiles[user] EXCEPT !.avatar_url = avatar],
                        profiles, enforced)
       IN /\ profiles' = table
          /\ lastCall' = [op |-> "profile info", by |-> caller, arg |-> 0,
                          ok |-> table # profiles]
    /\ UNCHANGED <<dbVars, now, loc, view, studentVars, teacherVars,
                   claimedAd, endedBy>>

\* update profiles set role = newRole where user_id = auth.uid(), by caller.
ApiProfileUpdateRole(caller, newRole, enforced) ==
    /\ profiles[caller] # NoProfile
    /\ newRole # profiles[caller].role
    /\ LET table == ProfileUpdate(caller, caller,
                        [profiles[caller] EXCEPT !.role = newRole],
                        profiles, enforced)
       IN /\ profiles' = table
          /\ lastCall' = [op |-> "profile role", by |-> caller, arg |-> 0,
                          ok |-> table # profiles]
    /\ UNCHANGED <<dbVars, now, loc, view, studentVars, teacherVars,
                   claimedAd, endedBy>>

\* insert into profiles (user_id, role) values (auth.uid(), newRole), by
\* caller.
ApiProfileInsert(caller, newRole) ==
    /\ profiles[caller] # NoProfile
    /\ LET table == ProfileInsert(caller, caller,
                        [role |-> newRole, avatar_url |-> "null"], profiles)
       IN /\ profiles' = table
          /\ lastCall' = [op |-> "profile insert", by |-> caller, arg |-> 0,
                          ok |-> table # profiles]
    /\ UNCHANGED <<dbVars, now, loc, view, studentVars, teacherVars,
                   claimedAd, endedBy>>

(***************************************************************************)
(* Specifications of the datastore under any authenticated caller, one per *)
(* table: SpecAvailApi for teacher_availability, SpecSessionApi for        *)
(* sessions with the teachers' dashboards subscribed, SpecRatingApi for    *)
(* ratings of the sessions a student created.                              *)
(***************************************************************************)
NextAvailApi ==
    \/ \E caller \in Profiles, teacher \in Teachers, o \in Offers :
          ApiAvailabilityUpsert(caller, teacher, o)
    \/ \E caller \in Profiles, teacher \in Teachers :
          ApiAvailabilityDelete(caller, teacher)

SpecAvailApi == Init /\ [][NextAvailApi]_vars

\* SpecProfileApi: users sign up, and every user with a profile sends
\* inserts and updates of profiles.
ProfileUsers == {"s1", "t1"} \cup NewUsers
NextProfileApi ==
    \/ \E user \in NewUsers, requested \in {"student", "teacher", "admin"} :
          SignUp(user, requested)
    \/ \E caller \in ProfileUsers, user \in ProfileUsers,
          avatar \in {"null", "pic"}, enforced \in BOOLEAN :
          ApiProfileUpdateInfo(caller, user, avatar, enforced)
    \/ \E caller \in ProfileUsers, newRole \in {"student", "teacher"},
          enforced \in BOOLEAN :
          ApiProfileUpdateRole(caller, newRole, enforced)
    \/ \E caller \in ProfileUsers, newRole \in {"student", "teacher"} :
          ApiProfileInsert(caller, newRole)

SpecProfileApi == Init /\ [][NextProfileApi]_vars

NextSessionApi ==
    \/ \E caller \in {"s1", "t1"}, teacher \in {"t1", "t2", "s2"},
          status \in {"pending", "active"} :
          /\ Len(sessions) < MaxSessions
          /\ ApiSessionInsert(caller, caller, teacher, status)
    \/ \E t \in Teachers : \E ev \in sessEvents[t] :
          SessionEventDelivered(t, ev)
    \/ \E caller \in Profiles, sid \in DOMAIN sessions :
          ApiSessionUpdate(caller, sid)

SpecSessionApi == Init /\ [][NextSessionApi]_vars

NextRatingApi ==
    \/ \E teacher \in Teachers :
          /\ Len(sessions) < MaxSessions
          /\ ApiSessionInsert("s1", "s1", teacher, "active")
    \/ \E caller \in Students, sid \in DOMAIN sessions, student \in Students,
          teacher \in Teachers, score \in ApiScores :
          ApiRatingInsert(caller, sid, student, teacher, score)

SpecRatingApi == Init /\ [][NextRatingApi]_vars

(***************************************************************************)
(* Properties of the claim coordinator (checked under Spec).              *)
(***************************************************************************)
\* C1: at-most-one-winner.  However many times handleConnectToTeacher is
\* invoked against the same advertisement instance, by different students or
\* twice by the same one, at most one session is ever created for it.
AtMostOneSessionPerAd ==
    \A i, j \in DOMAIN sessions : claimedAd[i] = claimedAd[j] => i = j

\* C2: a successful claim retires the advertisement.  Once the handler of a
\* claim has run to its end, the advertisement row the session was created
\* from is no longer in teacher_availability.
ClaimedAdRetired ==
    \A i \in DOMAIN sessions :
        (\A p \in Students : i \notin connecting[p])
        => ~\E r \in teacher_availability : r.id = claimedAd[i]

\* C3: a claim re-verifies the advertisement.  A step that creates a session
\* finds the advertisement it claims still open in teacher_availability: a
\* claim issued from a snapshot the teacher has since withdrawn creates none.
ClaimFindsAdOpen ==
    [][Len(sessions') > Len(sessions)
       => \E r \in teacher_availability :
             r.id = claimedAd'[Len(sessions')] /\ r.is_available]_vars

\* C4: a claim that loses the race does not navigate into a session.  Every
\* student on the Session page is there for the first session created from
\* its advertisement.
LoserDoesNotNavigate ==
    \A p \in Students :
        InSession(p) /\ view[p].sid \in DOMAIN sessions
        => \A j \in DOMAIN sessions :
              claimedAd[j] = claimedAd[view[p].sid] => j >= view[p].sid

\* C5: per-teacher uniqueness.  In every reachable state of the datastore
\* teacher_availability holds at most one row per teacher.
OneAdPerTeacher ==
    \A r1, r2 \in teacher_availability :
        r1.teacher_id = r2.teacher_id => r1 = r2

\* A publish was attempted while the teacher's row existed: the teacher came
\* back from a session (whose advertisement, the only one ever inserted, is
\* still there), and pressed the button with the local flag cleared.
PublishedOverExistingAd ==
    \E t \in Teachers :
        /\ OnDashboard(t) /\ availFetch[t] /\ isAvailable[t]
        /\ adCount = 1
        /\ \E r \in teacher_availability : r.teacher_id = t

(***************************************************************************)
(* Properties of the session lifecycle (checked under SpecLife).          *)
(***************************************************************************)
\* C6: terminal idempotence.  No step changes ended_at or duration_minutes of
\* a session that is already completed: a second endSession is a no-op.
CompletionWrittenOnce ==
    [][\A i \in DOMAIN sessions :
          sessions[i].status = "completed"
          => /\ sessions'[i].ended_at = sessions[i].ended_at
             /\ sessions'[i].duration_minutes = sessions[i].duration_minutes
      ]_vars

DurationIsFloorOfElapsed ==
    \A i \in DOMAIN sessions :
        /\ sessions[i].status = "completed"
        /\ endedBy[i] # <<>> /\ endedBy[i][Len(endedBy[i])] = "click"
        => sessions[i].duration_minutes =
              (sessions[i].ended_at - sessions[i].started_at)
                 \div SecondsPerMinute

\* C9: a completion forced by the one-hour cap (written by the timer
\* callback) stores duration_minutes = 60.
CapStoresSixtyMinutes ==
    \A i \in DOMAIN sessions :
        /\ sessions[i].status = "completed"
        /\ endedBy[i] # <<>> /\ endedBy[i][Len(endedBy[i])] = "timer"
        => sessions[i].duration_minutes = CapSeconds \div SecondsPerMinute

\* C10: hard cap enforcement.  Whatever the order in which the session and
\* the profile were loaded, once the interval of an open view has fired with
\* 3600 seconds or more elapsed, the session is completed.
CapTickCompletes ==
    \A p \in Profiles :
        TimerRunning(p) /\ view[p].elapsedTime >= CapSeconds
        => sessions[view[p].sid].status = "completed"

(***************************************************************************)
(* Properties of ratings and statistics (checked under SpecRate).         *)
(***************************************************************************)
\* C11: rating singularity.  After every step the ratings table holds at
\* most one row per session and every row it held before; a submitRating
\* for a session that is already rated therefore leaves the table as it is,
\* and a step that leaves the table as it is leaves the average rating as it
\* is.
RatingSingularity ==
    [][/\ \A r1, r2 \in ratings' :
             r1.session_id = r2.session_id => r1 = r2
       /\ ratings \subseteq ratings'
       /\ ratings' = ratings
          => app_stats'.average_rating = app_stats.average_rating]_vars

\* submitRating was called for a session that already had its rating, and
\* the insert was rejected.
SecondRatingRejected ==
    /\ lastCall.op = "rating" /\ ~lastCall.ok
    /\ ratings # {}

\* C13 (as stated): statistics correctness.  In every reachable state
\* total_sessions is the number of completed sessions and average_rating is
\* exactly the mean of all rating scores (0 when there is none).
\* average_rating is held in hundredths.
StatsAreExactMean ==
    /\ app_stats.total_sessions =
          Cardinality({i \in DOMAIN sessions :
                          sessions[i].status = "completed"})
    /\ ratings = {} => app_stats.average_rating = 0
    /\ app_stats.average_rating * Cardinality(ratings)
          = 100 * SumRatings(ratings)

\* C13 (amended): total_sessions is the number of completed sessions and
\* average_rating is the mean of all rating scores rounded to two decimal
\* places, that is, within half a hundredth of the mean (0 when there is
\* no rating).
StatsAreRoundedMean ==
    /\ app_stats.total_sessions =
          Cardinality({i \in DOMAIN sessions :
                          sessions[i].status = "completed"})
    /\ ratings = {} => app_stats.average_rating = 0
    /\ LET n == Cardinality(ratings)
           d == app_stats.average_rating * n - 100 * SumRatings(ratings)
       IN 2 * d <= n /\ 2 * (0 - d) <= n

\* Three sessions are rated and the mean of the scores has more than two
\* decimal places.
ThreeRatingsUnevenMean ==
    /\ Cardinality(ratings) = 3
    /\ (100 * SumRatings(ratings)) % 3 # 0
    /\ app_stats.average_rating > 0

(***************************************************************************)
(* Properties of the datastore under any caller (checked under the        *)
(* specifications of its API).                                             *)
(***************************************************************************)
\* C12: a rating is created only by the student of the session it rates.
\* Every row of ratings names an existing session and carries that
\* session's student_id and teacher_id.
RatingByStudentOfSession ==
    \A r \in ratings :
        /\ r.session_id \in DOMAIN sessions
        /\ r.student_id = sessions[r.session_id].student_id
        /\ r.teacher_id = sessions[r.session_id].teacher_id

(***************************************************************************)
(* Properties of publishing and claiming with every offer (checked under   *)
(* SpecOffer).                                                             *)
(***************************************************************************)
\* toggleAvailability took its publish branch for teacher t in this step.
PublishStep(t) ==
    /\ OnDashboard(t) /\ loc'[t] = "dashboard"
    /\ availFetch'[t] = availFetch[t]
    /\ ~isAvailable[t] /\ isAvailable'[t]

\* C14: publish supersedes.  When a teacher who already has an advertisement
\* publishes again, the teacher's advertisement afterwards carries the
\* subject and topic of that publish.
PublishSupersedes ==
    [][\A t \in MatchTeachers :
          (PublishStep(t) /\ \E r \in teacher_availability : r.teacher_id = t)
          => \E r \in teacher_availability' :
                r = AvailabilityRow(r.id, t, selected'[t])]_vars

\* C15: withdraw is idempotent.  On every table the datastore can hold, the
\* delete a teacher issues for the own identifier leaves no advertisement of
\* that teacher, only removes rows (none if there is none: the table is then
\* unchanged), gives the same table when applied twice as when applied once,
\* and keeps every other teacher's advertisement.
WithdrawIdempotent ==
    \A t \in Teachers :
        LET once == AvailabilityDelete(t, t, teacher_availability)
        IN /\ \A r \in once : r.teacher_id # t
           /\ once \subseteq teacher_availability
           /\ (\A r \in teacher_availability : r.teacher_id # t)
                 => once = teacher_availability
           /\ AvailabilityDelete(t, t, once) = once
           /\ \A r \in teacher_availability : r.teacher_id # t => r \in once

\* A teacher without an advertisement has just withdrawn, while another
\* teacher's advertisement is there.
WithdrawnWithoutAd ==
    /\ lastCall.op = "withdraw" /\ ~lastCall.ok
    /\ lastCall.by \in Teachers
    /\ \A r \in teacher_availability : r.teacher_id # lastCall.by
    /\ teacher_availability # {}

\* C16: every session a claim creates is active, has started_at set, and
\* carries the subject and topic of the advertisement of its teacher that the
\* datastore holds at the moment of the claim.
SessionCopiesStoredAd ==
    [][Len(sessions') > Len(sessions) =>
          LET s == sessions'[Len(sessions')]
          IN /\ s.status = "active"
             /\ s.started_at # NoTime
             /\ \A r \in teacher_availability :
                   r.teacher_id = s.teacher_id =>
                      r.subject_id = s.subject_id /\ r.topic_id = s.topic_id]_vars

(***************************************************************************)
(* Properties of the teacher's notification (checked under SpecLife).      *)
(***************************************************************************)
\* The 'session-requests' callback of teacher t navigated on event ev in
\* this step.
EnteredByEvent(t, ev) ==
    /\ OnDashboard(t) /\ ev \in sessEvents[t]
    /\ loc'[t] = "session"
    /\ view'[t] = MountedView(ev.id, TRUE)

\* C17: teacher notification.  A teacher's client that transitions into a
\* session on delivery of an insert event enters a session whose teacher_id
\* is that teacher and whose status is active.
TeacherEntersOwnActiveSession ==
    [][\A t \in Teachers : \A ev \in sessEvents[t] :
          EnteredByEvent(t, ev) =>
             /\ ev.id \in DOMAIN sessions
             /\ sessions[ev.id].teacher_id = t
             /\ sessions[ev.id].status = "active"]_vars

(***************************************************************************)
(* Properties of authorization (checked under SpecAvailApi and             *)
(* SpecSessionApi).                                                        *)
(***************************************************************************)
\* C18: publish authorization.  Every row of teacher_availability that a
\* statement creates, replaces or deletes is that of the caller, and the
\* caller's profile has role teacher: a statement by any other caller
\* changes no row.
OnlyOwnTeacherWritesAds ==
    [][\A r \in (teacher_availability' \ teacher_availability)
                \cup (teacher_availability \ teacher_availability') :
          r.teacher_id = lastCall'.by /\ role(lastCall'.by) = "teacher"]_vars

\* A student's delete has just been refused while every teacher has an
\* advertisement.
StudentDeleteRefused ==
    /\ lastCall.op = "withdraw" /\ ~lastCall.ok
    /\ lastCall.by \in Students
    /\ \A t \in Teachers : \E r \in teacher_availability : r.teacher_id = t

\* C19: claim authorization and participant roles.  A claim by a caller who
\* is not a student creates no session: in every state each session's
\* student_id is a profile with role student and its teacher_id a profile
\* with role teacher.
ParticipantsHaveRoles ==
    \A i \in DOMAIN sessions :
        /\ role(sessions[i].student_id) = "student"
        /\ role(sessions[i].teacher_id) = "teacher"

(***************************************************************************)
(* Properties of the handlers' outcome (checked under SpecOffer).          *)
(***************************************************************************)
\* C20: failures are surfaced.  The teacher's local isAvailable flag is set
\* by a publish only if the datastore accepted the write, that is, only if
\* the advertisement was stored.
PublishFlagFollowsWrite ==
    [][\A t \in MatchTeachers :
          PublishStep(t) => teacher_availability' # teacher_availability]_vars

(***************************************************************************)
(* Properties of the rating prompt (checked under SpecRate).               *)
(***************************************************************************)
\* endSession offered the rating prompt to p in this step.
PromptOffered(p) ==
    /\ InSession(p) /\ ~view[p].showRating
    /\ loc'[p] = "session" /\ view'[p].showRating

\* C21: post-completion gate.  The rating prompt is offered only to a caller
\* whose role is student, and not again to a student for a session this
\* student was already offered it for (the student's rating of the session,
\* which only the prompt submits, is not yet there).
PromptOnceForStudentOnly ==
    [][\A p \in Profiles :
          PromptOffered(p) =>
             /\ role(p) = "student"
             /\ \A r \in ratings :
                   ~(r.session_id = view[p].sid /\ r.student_id = p)]_vars

(***************************************************************************)
(* Properties of the relay of availability changes (checked under          *)
(* SpecRelay).                                                             *)
(***************************************************************************)
\* C22: availability relay to students.  With every event delivered and
\* every answer arriving, once the advertisements stop changing the list of
\* every subscribed student dashboard eventually equals, and stays equal to,
\* the open advertisements of the datastore.
RelayConverges ==
    <>[](\A p \in Students :
            availableTeachers[p] = AvailabilitySelectOpen(teacher_availability))

(***************************************************************************)
(* Properties of the teacher's dashboard at mount (checked under Spec).    *)
(***************************************************************************)
\* TeacherDashboard of t mounts in this step.
TeacherMounts(t) == loc[t] = "session" /\ loc'[t] = "dashboard"

\* C23: fetch on (re)connect.  Whenever a teacher has at least one session
\* with status active when the dashboard mounts, checkPendingSession makes
\* the dashboard show the active-session alert.
MountShowsActiveSession ==
    [][\A t \in Teachers :
          (TeacherMounts(t)
           /\ \E i \in DOMAIN sessions' :
                 sessions'[i].teacher_id = t /\ sessions'[i].status = "active")
          => pendingSession'[t] # NoSession]_vars

(***************************************************************************)
(* Properties of the tables over any sequence of operations (checked       *)
(* under SpecRate).                                                        *)
(***************************************************************************)
\* C24: sessions and ratings are never removed.  No step removes a session
\* identifier, and no step removes or changes a row of ratings: both sets
\* only grow.
SessionsAndRatingsOnlyGrow ==
    [][/\ DOMAIN sessions \subseteq DOMAIN sessions'
       /\ ratings \subseteq ratings']_vars

\* Two sessions exist, one is rated, and a further rating insert was sent
\* and refused.
RatedAndClaimedAgain ==
    /\ Len(sessions) >= 2
    /\ ratings # {}
    /\ lastCall.op = "rating" /\ ~lastCall.ok
    /\ \E i \in DOMAIN sessions : sessions[i].status = "completed"

(***************************************************************************)
(* Properties of a session nobody has open (checked under SpecLife).       *)
(***************************************************************************)
\* Some client shows the Session page of session i.
SessionOpen(i) == \E p \in Profiles : InSession(p) /\ view[p].sid = i

\* C25: only a client-side endSession moves a session out of active.  While
\* no client has the session view of a session open, no step changes the
\* session: it stays as it is, also past 3600 seconds after started_at.
UnattendedSessionUnchanged ==
    [][\A i \in DOMAIN sessions :
          ~SessionOpen(i) => sessions'[i] = sessions[i]]_vars

\* A session is still active more than 3600 seconds after it started, and
\* nobody has it open.
ActivePastCapUnattended ==
    \E i \in DOMAIN sessions :
        /\ sessions[i].status = "active"
        /\ now - sessions[i].started_at > CapSeconds
        /\ ~SessionOpen(i)

(***************************************************************************)
(* Properties of access to sessions (checked under SpecSessionApi).        *)
(***************************************************************************)
\* C26: a session is read and mutated only by its two participants.  A step
\* that changes a session is a statement of its student or its teacher; and
\* for a caller who is neither, a read of the session returns no row.
OnlyParticipantsTouchSession ==
    [][\A i \in DOMAIN sessions :
          /\ sessions'[i] # sessions[i] =>
                lastCall'.by \in {sessions[i].student_id, sessions[i].teacher_id}
          /\ \A caller \in Profiles :
                caller \notin {sessions[i].student_id, sessions[i].teacher_id}
                => SessionSelect(caller, i, sessions) = {}]_vars

\* An update sent by a caller who takes part in no session has just been
\* refused while a session is active.
OutsiderUpdateRefused ==
    /\ lastCall.op = "end" /\ ~lastCall.ok
    /\ sessions # <<>>
    /\ \A i \in DOMAIN sessions :
          /\ sessions[i].status = "active"
          /\ lastCall.by \notin {sessions[i].student_id, sessions[i].teacher_id}

(***************************************************************************)
(* Properties of the stored rows (checked under SpecLife, SpecRatingApi).  *)
(***************************************************************************)
\* C27: session field consistency.  In every state a session with status
\* active has started_at set and ended_at and duration_minutes null, and a
\* session with status completed has started_at, ended_at and
\* duration_minutes set.
SessionFieldsConsistent ==
    \A i \in DOMAIN sessions :
        LET s == sessions[i]
        IN /\ s.status = "active" =>
                /\ s.started_at # NoTime
                /\ s.ended_at = NoTime /\ s.duration_minutes = NoTime
           /\ s.status = "completed" =>
                /\ s.started_at # NoTime
                /\ s.ended_at # NoTime /\ s.duration_minutes # NoTime

\* A session was completed some time after it started.
CompletedAfterAWhile ==
    \E i \in DOMAIN sessions :
        /\ sessions[i].status = "completed"
        /\ sessions[i].ended_at > sessions[i].started_at

\* C28: every stored rating has a score in 1..5.  Every row of ratings has a
\* rating within 1..5, and an insert whose score is outside that range
\* leaves ratings and the statistics unchanged.
RatingScoresInRange ==
    [][/\ \A r \in ratings' : r.rating \in 1..5
       /\ (lastCall'.op = "rating" /\ lastCall'.arg \notin 1..5)
             => ratings' = ratings /\ app_stats' = app_stats]_vars

\* An insert with a score outside 1..5 has just been refused, with ratings
\* already stored.
OutOfRangeScoreRefused ==
    /\ lastCall.op = "rating" /\ ~lastCall.ok
    /\ lastCall.arg \notin 1..5
    /\ ratings # {}

(***************************************************************************)
(* Properties of the student's list (checked under SpecFilter).            *)
(***************************************************************************)
\* An entry satisfies a text query: the teacher's name or the subject's name
\* contains it, letter case aside.
MatchesText(teacher, query) ==
    \/ Includes(ToLowerCase(FullName(teacher.teacher_id)), ToLowerCase(query))
    \/ Includes(ToLowerCase(SubjectName(teacher.subject_id)),
                ToLowerCase(query))

\* C29: listOpen filtering.  The list shown to a student is exactly the
\* fetched advertisements that pass the subject filter, the topic filter and
\* the text query, a filter that is not set passing every entry; with no
\* filter set it is the whole fetched list.
ShownListIsConjunctionOfFilters ==
    \A p \in Students :
        LET f == filters[p]
            list == availableTeachers[p]
            bySubject == IF f.selectedSubject = "null" THEN list
                         ELSE {a \in list : a.subject_id = f.selectedSubject}
            byTopic == IF f.selectedTopic = "null" THEN list
                       ELSE {a \in list : a.topic_id = f.selectedTopic}
            byQuery == IF f.searchQuery = <<>> THEN list
                       ELSE {a \in list : MatchesText(a, f.searchQuery)}
        IN /\ FilteredTeachers(p) = bySubject \cap byTopic \cap byQuery
           /\ f = NoFilters => FilteredTeachers(p) = list

\* With the three filters set, the student is shown one of two fetched
\* advertisements of the selected subject.
AllFiltersSetNarrowList ==
    \E p \in Students :
        /\ filters[p].selectedSubject # "null"
        /\ filters[p].selectedTopic # "null"
        /\ filters[p].searchQuery # <<>>
        /\ Cardinality(FilteredTeachers(p)) = 1
        /\ Cardinality({a \in availableTeachers[p] :
                           a.subject_id = filters[p].selectedSubject}) = 2

(***************************************************************************)
(* Properties of access to profiles (checked under SpecProfileApi).        *)
(***************************************************************************)
\* C30: the role of a profile is assigned exactly once, when the profile is
\* created by handle_new_user at signup, and no later statement of the
\* owning identity (nor of any other user) changes it: in every step an
\* existing profile keeps its role, and a profile appears only by a signup.
RoleAssignedOnceAtCreation ==
    [][\A user \in Users :
          /\ profiles[user] # NoProfile
                => profiles'[user].role = profiles[user].role
          /\ profiles[user] = NoProfile /\ profiles'[user] # NoProfile
                => lastCall'.op = "signup" /\ lastCall'.by = user]_vars

\* A user who signed up changed the avatar of the own profile, then asked
\* for another role and was refused.
OwnRoleChangeRefused ==
    /\ lastCall.op = "profile role" /\ ~lastCall.ok
    /\ lastCall.by \in NewUsers
    /\ profiles[lastCall.by].avatar_url = "pic"

(***************************************************************************)
(* Properties of concurrent sessions (checked under Spec).                 *)
(***************************************************************************)
\* C31: no teacher is a participant of two sessions with status active at
\* the same time, and no student is, after any interleaving of publish,
\* claim, withdraw and endSession.
OneActiveSessionPerParticipant ==
    \A i, j \in DOMAIN sessions :
        /\ i # j
        /\ sessions[i].status = "active" /\ sessions[j].status = "active"
        => /\ sessions[i].teacher_id # sessions[j].teacher_id
           /\ sessions[i].student_id # sessions[j].student_id

(***************************************************************************)
(* Properties of the cap and of the completion write (checked under        *)
(* SpecLife).                                                              *)
(***************************************************************************)
\* C32: the one-hour cap bounds the recorded duration.  Every completed
\* session has 0 <= duration_minutes <= 60, also when its view was reopened,
\* or it was first ended by hand, more than 3600 seconds after started_at.
DurationWithinCap ==
    \A i \in DOMAIN sessions :
        sessions[i].status = "completed"
        => /\ sessions[i].duration_minutes >= 0
           /\ sessions[i].duration_minutes <= CapSeconds \div SecondsPerMinute

\* The Session page of p shows the rating prompt (p's endSession has run for
\* the session) and no other client has that session open.
AloneOnPrompt(p) ==
    /\ InSession(p) /\ view[p].showRating
    /\ \A q \in Profiles \ {p} : ~(InSession(q) /\ view[q].sid = view[p].sid)

\* C33: a session view issues at most one completion write per session.
\* Once a client's endSession has run, by the button or forced by the cap,
\* that client's timer writes the session no more, also while a student
\* stays on the rating prompt with 3600 seconds or more elapsed.
OneCompletionWritePerView ==
    [][\A p \in Students :
          AloneOnPrompt(p)
          => sessions'[view[p].sid] = sessions[view[p].sid]]_vars

(***************************************************************************)
(* Properties of rated sessions (checked under SpecRateFail).              *)
(***************************************************************************)
\* C34: a rating exists only for a session that has reached status
\* completed.  In every reachable state each row of ratings names a session
\* whose status is completed, also when the update of the endSession that
\* showed the rating prompt failed.
RatedSessionsAreCompleted ==
    \A r \in ratings :
        /\ r.session_id \in DOMAIN sessions
        /\ sessions[r.session_id].status = "completed"

(***************************************************************************)
(* Frame properties (checked under SpecRate and SpecOffer).                *)
(***************************************************************************)
\* C35: endSession changes only the status, ended_at and duration_minutes
\* of the one session named by its identifier.  In a step that writes a
\* stored session, that session is the one of a view that is open, its
\* started_at, student_id, teacher_id, subject_id and topic_id stay as they
\* are, and so do every other session and all advertisements.
EndSessionWritesOneSession ==
    [][\A i \in DOMAIN sessions :
          sessions'[i] # sessions[i]
          => /\ \E p \in Profiles : InSession(p) /\ view[p].sid = i
             /\ sessions'[i].started_at = sessions[i].started_at
             /\ sessions'[i].student_id = sessions[i].student_id
             /\ sessions'[i].teacher_id = sessions[i].teacher_id
             /\ sessions'[i].subject_id = sessions[i].subject_id
             /\ sessions'[i].topic_id = sessions[i].topic_id
             /\ \A j \in DOMAIN sessions \ {i} : sessions'[j] = sessions[j]
             /\ Len(sessions') = Len(sessions)
             /\ teacher_availability' = teacher_availability]_vars

\* The second session of a student was ended while the first one was still
\* active and the teacher's advertisement was stored.
EndedBesideActiveSession ==
    /\ Len(sessions) >= 2
    /\ sessions[1].status = "active"
    /\ sessions[2].status = "completed" /\ endedBy[2] = <<"click">>
    /\ sessions[1].student_id = sessions[2].student_id
    /\ teacher_availability # {}

\* The advertisements of teacher t in a table.
AdsOf(t, table) == {r \in table : r.teacher_id = t}

\* toggleAvailability of teacher t ran in this step (publish or withdraw).
ToggleStep(t) ==
    /\ OnDashboard(t) /\ loc'[t] = "dashboard"
    /\ availFetch'[t] = availFetch[t]
    /\ isAvailable'[t] # isAvailable[t]

\* handleConnectToTeacher on an entry of teacher t ran one of its two
\* statements in this step: the insert of the session or the delete of the
\* advertisement.
ClaimStep(t) ==
    \/ /\ Len(sessions') > Len(sessions)
       /\ sessions'[Len(sessions')].teacher_id = t
    \/ \E p \in Students : \E sid \in connecting[p] :
          /\ sessions[sid].teacher_id = t
          /\ OnDashboard(p) /\ loc'[p] = "session" /\ view'[p].sid = sid

\* C36: claim, publish and withdraw on teacher T touch only T's
\* advertisement.  A step of one of them leaves the advertisements of every
\* other teacher and every stored session as they are; and a step in which
\* no session becomes completed and no rating is inserted leaves the
\* statistics row as it is.
OnlyOwnAdTouched ==
    [][/\ \A t \in Teachers :
             ToggleStep(t) \/ ClaimStep(t)
             => /\ \A u \in Teachers \ {t} :
                      AdsOf(u, teacher_availability')
                         = AdsOf(u, teacher_availability)
                /\ \A i \in DOMAIN sessions :
                      i \in DOMAIN sessions' /\ sessions'[i] = sessions[i]
       /\ (/\ ratings' = ratings
           /\ \A i \in DOMAIN sessions' :
                 sessions'[i].status = "completed"
                 => i \in DOMAIN sessions /\ sessions[i].status = "completed")
          => app_stats' = app_stats]_vars

\* A session with teacher t1 was claimed after an earlier session had been
\* completed and counted, while teacher t2's advertisement is stored.
ClaimedBesideOtherAd ==
    /\ Len(sessions) = 2
    /\ sessions[1].status = "completed" /\ app_stats.total_sessions = 1
    /\ sessions[2].status = "active" /\ sessions[2].teacher_id = "t1"
    /\ AdsOf("t2", teacher_availability) # {}

====
